---- MODULE Spec2Model ----
(***************************************************************************)
(* Model of the Andromeda client (src/andromeda.go): every operation of   *)
(* the client is validate -> generateRequest -> doHTTP -> json.Unmarshal.  *)
(* One invocation is followed from the call to its return (or panic); the *)
(* HTTP exchange is split at the two points where the code blocks on the  *)
(* network: waiting for the response headers (client.Do) and reading the  *)
(* response body (io.Copy).                                                *)
(*                                                                         *)
(* Strings the code inspects character by character (Phone, Host and the  *)
(* endpoint paths) are sequences of one-character strings; the other      *)
(* strings are TLA+ strings.  The Russian error texts of the source are   *)
(* transliterated to ASCII.                                                *)
(***************************************************************************)
EXTENDS Integers, Sequences, FiniteSets, TLC

VARIABLES
    pc,              \* where the invocation is: idle, awaitHeaders, readBody, done
    op, input, ctx,  \* the facade method called, its input and its context
    req,             \* the request generateRequest built
    httpReq,         \* the *http.Request doHTTP handed to c.client.Do
    transportCalls,  \* how many times the transport was invoked
    elapsed,         \* seconds since c.client.Do was entered
    cancelled,       \* whether the caller has cancelled ctx
    resp,            \* the response c.client.Do returned
    bodyReads,       \* how many times doHTTP started reading resp.Body
    copyErr,         \* what io.Copy(&buf, resp.Body) returned
    ret,             \* what doHTTP returned
    out,             \* how the facade method ended
    client,          \* the Client several callers share
    calls,           \* the frame of each concurrent caller's invocation
    crashed          \* whether an unrecovered panic has ended the process

\* The state of the one invocation followed step by step, timers included
seqVars == <<pc, op, input, ctx, req, httpReq, transportCalls, elapsed,
             cancelled, resp, bodyReads, copyErr, ret, out>>

\* The state of the invocations several callers run on one Client
concVars == <<client, calls, crashed>>

vars == <<seqVars, concVars>>

\* ------------------------------------------------------------------ bounds

\* Latest caller deadline tried (in seconds after the call starts); it lies
\* beyond defaultTimeout so that the client's own timer can fire first.
MaxDeadline == 6

\* Horizon of the clock, in seconds after c.client.Do is entered.
MaxElapsed == 7

\* Number of callers that invoke the shared Client concurrently.
NumCallers == 2

\* ------------------------------------------------------- program constants

endpointGetSites == <<"/", "S", "i", "t", "e", "s">>
endpointGetCustomers == <<"/", "C", "u", "s", "t", "o", "m", "e", "r", "s">>
endpointCheckPanic == <<"/", "C", "h", "e", "c", "k", "P", "a", "n", "i", "c">>
endpointMyAlarm == <<"/", "M", "y", "A", "l", "a", "r", "m">>
endpointGetUserObjectMyAlarm ==
    <<"/", "M", "y", "A", "l", "a", "r", "m", "/",
      "U", "s", "e", "r", "O", "b", "j", "e", "c", "t", "s">>
endpointGetParts == <<"/", "P", "a", "r", "t", "s">>
endpointGetZones == <<"/", "Z", "o", "n", "e", "s">>

\* defaultTimeout = 5 * time.Second
defaultTimeout == 5

StatusOK == 200
StatusBadRequest == 400

\* -------------------------------------------------------------- operations

LegacyGetSites == "legacy.GetSites"

CurrentOps ==
    {"GetSites", "Customers", "GetCustomer", "PostCheckPanic", "GetCheckPanic",
     "GetUsersMyAlarm", "PutChangeUserMyAlarm", "PutChangeKTSUserMyAlarm",
     "GetUserObjectMyAlarm", "GetParts", "GetZones"}

Ops == CurrentOps \cup {LegacyGetSites}

\* ------------------------------------------------------------------ errors

\* A Go error value: nil, or a chain of messages (outermost first).
NilErr == [isNil |-> TRUE, msg |-> <<>>]

\* errors.New(m)
ErrorsNew(m) == [isNil |-> FALSE, msg |-> <<m>>]

\* errors.WithMessage(e, m): nil stays nil, otherwise m is put in front
WithMessage(e, m) ==
    IF e.isNil THEN NilErr ELSE [isNil |-> FALSE, msg |-> <<m>> \o e.msg]

\* err.Error(): the message of errors.New, and "m: cause" for
\* errors.WithMessage
RECURSIVE DescribeFrom(_, _)
DescribeFrom(msg, k) ==
    IF k >= Len(msg) THEN msg[k]
    ELSE msg[k] \o ": " \o DescribeFrom(msg, k + 1)

Description(e) == IF e.isNil THEN "<nil>" ELSE DescribeFrom(e.msg, 1)

ErrBadSiteNumber == "neverno zadan nomer ob'ekta"
ErrBadApiKey == "neverno zadan API klyuch"
ErrBadHost == "neverno zadan adres servera"
ErrBadCustomerId == "neverno zadan identifikator otvetstvennogo lica"
ErrBadInterval == "neverno zadano vremya ozhidaniya proverki"
ErrBadCheckId == "neverno zadan identifikator proverki"
ErrBadSiteId == "neverno zadan identifikator ob'ekta"
ErrBadPhone == "neverno zadan nomer telefona"
ErrBadUserId == "neverno zadan identifikator pol'zovatelya"
ErrBadRole == "neverno zadana rol' pol'zovatelya"
ErrCreateRequest == "Ne udalos' sozdat' zapros"
ErrDoRequest == "Ne udalos' vypolnit' zapros"
ErrReadResponse == "Ne udalsya parsing otveta"
ErrParseResponse == "Ne udalos' parsit' otvet"

ValidationMessages ==
    {ErrBadSiteNumber, ErrBadApiKey, ErrBadHost, ErrBadCustomerId,
     ErrBadInterval, ErrBadCheckId, ErrBadSiteId, ErrBadPhone, ErrBadUserId,
     ErrBadRole}

\* ------------------------------------------------------------------ inputs

\* One record shape for the input structs of all operations; an operation
\* reads only the fields its struct has, the others keep their zero value.
ZeroInput ==
    [Id |-> "", IdNum |-> 0, SiteId |-> "", CheckPanicId |-> "",
     CustId |-> "", Phone |-> <<>>, Role |-> "", CheckInterval |-> 0,
     StopOnEvent |-> FALSE, IsPanic |-> FALSE, UserName |-> "",
     ApiKey |-> "", Host |-> <<>>]

IdValues == {"", "s1"}
IdNumValues == {-1, 0, 1, 12}
ApiKeyValues == {"", "k1"}
UserNameValues == {"", "u 1"}

\* "http://h": a well-formed base URL
HostHttp == <<"h", "t", "t", "p", ":", "/", "/", "h">>
\* "h": no scheme, parses as a relative path
HostNoScheme == <<"h">>
\* "1:8": host:port with no scheme, which url.Parse refuses
HostPort == <<"1", ":", "8">>
HostValues == {<<>>, HostHttp, HostNoScheme, HostPort}

PhoneGood == <<"+", "7", "9", "9", "9", "1", "2", "3", "4", "5", "6", "7">>
PhoneBadPrefix11 == <<"8", "9", "9", "9", "1", "2", "3", "4", "5", "6", "7">>
PhoneGoodPrefix11 == <<"+", "7", "9", "9", "9", "1", "2", "3", "4", "5", "6">>
PhoneBadPrefix12 == <<"8", "9", "9", "9", "1", "2", "3", "4", "5", "6", "7", "8">>
PhoneOneChar == <<"8">>
PhoneValues ==
    {<<>>, PhoneGood, PhoneBadPrefix11, PhoneGoodPrefix11, PhoneBadPrefix12,
     PhoneOneChar}

RoleValues == {"", "admin", "user", "unlink", "Admin", "owner"}

CheckIntervalValues == {-31, -1, 0, 1, 29, 30, 31, 179, 180, 181, 1000}

\* The inputs tried for each operation.
WithConfig(base) ==
    {[base EXCEPT !.UserName = u, !.ApiKey = k, !.Host = h] :
        u \in UserNameValues, k \in ApiKeyValues, h \in HostValues}

InputsOf(o) ==
    CASE o = LegacyGetSites ->
           UNION {WithConfig([ZeroInput EXCEPT !.IdNum = n]) : n \in IdNumValues}
      [] o \in {"GetSites", "GetCustomer"} ->
           UNION {WithConfig([ZeroInput EXCEPT !.Id = v]) : v \in IdValues}
      [] o \in {"Customers", "GetUsersMyAlarm", "GetParts", "GetZones"} ->
           UNION {WithConfig([ZeroInput EXCEPT !.SiteId = v]) : v \in IdValues}
      [] o = "PostCheckPanic" ->
           UNION {WithConfig([ZeroInput EXCEPT !.SiteId = v,
                                               !.CheckInterval = n,
                                               !.StopOnEvent = b]) :
                    v \in IdValues, n \in CheckIntervalValues, b \in BOOLEAN}
      [] o = "GetCheckPanic" ->
           UNION {WithConfig([ZeroInput EXCEPT !.CheckPanicId = v]) :
                    v \in IdValues}
      [] o = "GetUserObjectMyAlarm" ->
           UNION {WithConfig([ZeroInput EXCEPT !.Phone = p]) : p \in PhoneValues}
      [] o = "PutChangeUserMyAlarm" ->
           UNION {WithConfig([ZeroInput EXCEPT !.CustId = v, !.Role = r]) :
                    v \in IdValues, r \in RoleValues}
      [] o = "PutChangeKTSUserMyAlarm" ->
           UNION {WithConfig([ZeroInput EXCEPT !.CustId = v, !.IsPanic = b]) :
                    v \in IdValues, b \in BOOLEAN}

\* ---------------------------------------------------------------- validate

\* What a call of a Go function can do besides returning: panic.
Returned(e) == [panic |-> FALSE, err |-> e]
Panicked == [panic |-> TRUE, err |-> NilErr]

\* validateConfig with the ApiKey check left out
validateConfig_noApiKey(i) ==
    IF i.Host = <<>> THEN ErrorsNew(ErrBadHost) ELSE NilErr

\* The checks every validate method ends with (ApiKey, then Host).
validateConfig(i) ==
    IF i.ApiKey = "" THEN ErrorsNew(ErrBadApiKey)
    ELSE IF i.Host = <<>> THEN ErrorsNew(ErrBadHost)
    ELSE NilErr

\* func (i GetSitesInput) validate() error  -- legacy, Id int
validate_LegacyGetSites(i) ==
    IF i.IdNum < 1 THEN Returned(ErrorsNew(ErrBadSiteNumber))
    ELSE Returned(validateConfig(i))

validate_GetSites(i) ==
    IF i.Id = "" THEN Returned(ErrorsNew(ErrBadSiteNumber))
    ELSE Returned(validateConfig(i))

validate_GetCustomers(i) ==
    IF i.SiteId = "" THEN Returned(ErrorsNew(ErrBadSiteNumber))
    ELSE Returned(validateConfig(i))

validate_GetCustomer(i) ==
    IF i.Id = "" THEN Returned(ErrorsNew(ErrBadCustomerId))
    ELSE Returned(validateConfig(i))

\* validate_PostCheckPanic with the bounds 30 and 180 let through
validate_PostCheckPanic_inclusive(i) ==
    IF i.SiteId = "" THEN Returned(ErrorsNew(ErrBadSiteNumber))
    ELSE IF ~validateConfig(i).isNil THEN Returned(validateConfig(i))
    ELSE IF i.CheckInterval # 0
            /\ (i.CheckInterval < 30 \/ i.CheckInterval > 180)
         THEN Returned(ErrorsNew(ErrBadInterval))
    ELSE Returned(NilErr)

validate_PostCheckPanic(i) ==
    IF i.SiteId = "" THEN Returned(ErrorsNew(ErrBadSiteNumber))
    ELSE IF ~validateConfig(i).isNil THEN Returned(validateConfig(i))
    ELSE IF i.CheckInterval # 0
            /\ (i.CheckInterval <= 30 \/ i.CheckInterval >= 180)
         THEN Returned(ErrorsNew(ErrBadInterval))
    ELSE Returned(NilErr)

validate_GetCheckPanic(i) ==
    IF i.CheckPanicId = "" THEN Returned(ErrorsNew(ErrBadCheckId))
    ELSE Returned(validateConfig(i))

validate_GetUsersMyAlarm(i) ==
    IF i.SiteId = "" THEN Returned(ErrorsNew(ErrBadSiteId))
    ELSE Returned(validateConfig(i))

\* i.Phone[:2] panics (slice bounds out of range) when len(i.Phone) < 2; Go
\* evaluates it only when len(i.Phone) != 12.
validate_GetUserObjectMyAlarm(i) ==
    IF i.Phone = <<>> THEN Returned(ErrorsNew(ErrBadPhone))
    ELSE IF Len(i.Phone) # 12 /\ Len(i.Phone) < 2 THEN Panicked
    ELSE IF Len(i.Phone) # 12 /\ SubSeq(i.Phone, 1, 2) # <<"+", "7">>
         THEN Returned(ErrorsNew(ErrBadPhone))
    ELSE Returned(validateConfig(i))

\* validate_PutChangeUserMyAlarm with the role "unlink" left out
validate_PutChangeUserMyAlarm_noUnlink(i) ==
    IF i.CustId = "" THEN Returned(ErrorsNew(ErrBadUserId))
    ELSE IF i.Role # "admin" /\ i.Role # "user"
         THEN Returned(ErrorsNew(ErrBadRole))
    ELSE Returned(validateConfig(i))

validate_PutChangeUserMyAlarm(i) ==
    IF i.CustId = "" THEN Returned(ErrorsNew(ErrBadUserId))
    ELSE IF i.Role # "admin" /\ i.Role # "user" /\ i.Role # "unlink"
         THEN Returned(ErrorsNew(ErrBadRole))
    ELSE Returned(validateConfig(i))

validate_PutChangeKTSUserMyAlarm(i) ==
    IF i.CustId = "" THEN Returned(ErrorsNew(ErrBadUserId))
    ELSE Returned(validateConfig(i))

validate_GetParts(i) ==
    IF i.SiteId = "" THEN Returned(ErrorsNew(ErrBadUserId))
    ELSE Returned(validateConfig(i))

validate_GetZones(i) ==
    IF i.SiteId = "" THEN Returned(ErrorsNew(ErrBadUserId))
    ELSE Returned(validateConfig(i))

\* input.validate() as each facade method calls it
validate(o, i) ==
    CASE o = LegacyGetSites -> validate_LegacyGetSites(i)
      [] o = "GetSites" -> validate_GetSites(i)
      [] o = "Customers" -> validate_GetCustomers(i)
      [] o = "GetCustomer" -> validate_GetCustomer(i)
      [] o = "PostCheckPanic" -> validate_PostCheckPanic(i)
      [] o = "GetCheckPanic" -> validate_GetCheckPanic(i)
      [] o = "GetUsersMyAlarm" -> validate_GetUsersMyAlarm(i)
      [] o = "GetUserObjectMyAlarm" -> validate_GetUserObjectMyAlarm(i)
      [] o = "PutChangeUserMyAlarm" -> validate_PutChangeUserMyAlarm(i)
      [] o = "PutChangeKTSUserMyAlarm" -> validate_PutChangeKTSUserMyAlarm(i)
      [] o = "GetParts" -> validate_GetParts(i)
      [] o = "GetZones" -> validate_GetZones(i)

\* ------------------------------------------------------------ net/url, strconv

Letters ==
    {"a", "b", "c", "d", "e", "f", "g", "h", "i", "j", "k", "l", "m", "n", "o",
     "p", "q", "r", "s", "t", "u", "v", "w", "x", "y", "z",
     "A", "B", "C", "D", "E", "F", "G", "H", "I", "J", "K", "L", "M", "N", "O",
     "P", "Q", "R", "S", "T", "U", "V", "W", "X", "Y", "Z"}
SchemeChars == {"0", "1", "2", "3", "4", "5", "6", "7", "8", "9", "+", "-", "."}

\* Index of the first occurrence of character c in s, 0 when there is none.
RECURSIVE IndexFrom(_, _, _)
IndexFrom(s, c, k) ==
    IF k > Len(s) THEN 0
    ELSE IF s[k] = c THEN k
    ELSE IndexFrom(s, c, k + 1)

IndexOf(s, c) == IndexFrom(s, c, 1)

HasPrefix(s, p) == Len(s) >= Len(p) /\ SubSeq(s, 1, Len(p)) = p

\* url.getScheme: [err, scheme, rest]
RECURSIVE getSchemeFrom(_, _)
getSchemeFrom(rawURL, k) ==
    IF k > Len(rawURL) THEN [err |-> FALSE, scheme |-> <<>>, rest |-> rawURL]
    ELSE IF rawURL[k] \in Letters THEN getSchemeFrom(rawURL, k + 1)
    ELSE IF rawURL[k] \in SchemeChars THEN
        IF k = 1 THEN [err |-> FALSE, scheme |-> <<>>, rest |-> rawURL]
        ELSE getSchemeFrom(rawURL, k + 1)
    ELSE IF rawURL[k] = ":" THEN
        IF k = 1 THEN [err |-> TRUE, scheme |-> <<>>, rest |-> <<>>]
        ELSE [err |-> FALSE, scheme |-> SubSeq(rawURL, 1, k - 1),
              rest |-> SubSeq(rawURL, k + 1, Len(rawURL))]
    ELSE [err |-> FALSE, scheme |-> <<>>, rest |-> rawURL]

getScheme(rawURL) == getSchemeFrom(rawURL, 1)

NilURL ==
    [isNil |-> TRUE, Scheme |-> <<>>, Opaque |-> <<>>, Host |-> <<>>,
     Path |-> <<>>, RawQuery |-> <<>>]

\* The first path segment of rest: the text before its first "/".
FirstSegment(rest) ==
    IF IndexOf(rest, "/") = 0 THEN rest
    ELSE SubSeq(rest, 1, IndexOf(rest, "/") - 1)

\* url.Parse(rawURL) for a rawURL with no "?", "#" or control character:
\* the parsed URL, or nil with an error.
urlParse(rawURL) ==
    LET s == getScheme(rawURL) IN
    IF s.err THEN NilURL
    ELSE IF ~HasPrefix(s.rest, <<"/">>) THEN
        IF s.scheme # <<>> THEN
            [NilURL EXCEPT !.isNil = FALSE, !.Scheme = s.scheme,
                           !.Opaque = s.rest]
        ELSE IF IndexOf(FirstSegment(s.rest), ":") # 0 THEN NilURL
        ELSE [NilURL EXCEPT !.isNil = FALSE, !.Path = s.rest]
    ELSE IF HasPrefix(s.rest, <<"/", "/">>) /\ ~HasPrefix(s.rest, <<"/", "/", "/">>)
        THEN
        LET auth == SubSeq(s.rest, 3, Len(s.rest))
            cut  == IndexOf(auth, "/")
        IN  [NilURL EXCEPT
                !.isNil = FALSE, !.Scheme = s.scheme,
                !.Host = IF cut = 0 THEN auth ELSE SubSeq(auth, 1, cut - 1),
                !.Path = IF cut = 0 THEN <<>> ELSE SubSeq(auth, cut, Len(auth))]
    ELSE [NilURL EXCEPT !.isNil = FALSE, !.Scheme = s.scheme, !.Path = s.rest]

\* (*URL).String() without the query
urlBase(u) ==
    (IF u.Scheme # <<>> THEN u.Scheme \o <<":">> ELSE <<>>)
    \o (IF u.Opaque # <<>> THEN u.Opaque
        ELSE (IF u.Scheme # <<>> \/ u.Host # <<>>
                 THEN (IF u.Host # <<>> \/ u.Path # <<>>
                          THEN <<"/", "/">> ELSE <<>>) \o u.Host
                 ELSE <<>>)
             \o u.Path)

\* (*URL).String(): the text of the URL, kept as its base and its query
urlString(u) == [base |-> urlBase(u), query |-> u.RawQuery]

DigitStr == <<"0", "1", "2", "3", "4", "5", "6", "7", "8", "9">>

\* strconv.Itoa
RECURSIVE Itoa(_)
Itoa(n) ==
    IF n < 0 THEN "-" \o Itoa(-n)
    ELSE IF n < 10 THEN DigitStr[n + 1]
    ELSE Itoa(n \div 10) \o DigitStr[(n % 10) + 1]

\* strconv.FormatBool
FormatBool(b) == IF b THEN "true" ELSE "false"

\* url.QueryEscape on the values tried: a space becomes "+", the letters and
\* digits of the other values are kept.
QueryEscape(v) == IF v = "u 1" THEN "u+1" ELSE v

\* The query keys of the client in byte order, the order Values.Encode sorts by.
KeyOrder ==
    <<"checkInterval", "checkPanicId", "custId", "id", "isPanic", "role",
      "siteId", "stopOnEvent", "userName">>

\* url.Values{}.Add(key, value): param is the sequence of <<key, value>> added
Add(param, key, value) == Append(param, <<key, value>>)

\* url.Values.Encode(): the pairs sorted by key, each value escaped
ValuesOfKey(param, key) ==
    SelectSeq(param, LAMBDA kv : kv[1] = key)

RECURSIVE EncodeFrom(_, _)
EncodeFrom(param, k) ==
    IF k > Len(KeyOrder) THEN <<>>
    ELSE LET these == ValuesOfKey(param, KeyOrder[k]) IN
         [j \in 1..Len(these) |-> <<these[j][1], QueryEscape(these[j][2])>>]
         \o EncodeFrom(param, k + 1)

Encode(param) == EncodeFrom(param, 1)

\* ----------------------------------------------------------- encoding/json

\* A byte slice holding a document is modelled by the document: no bytes at
\* all, bytes that are not JSON, or a JSON value.  Numbers are n + f/10.
EmptyBytes == [t |-> "empty"]
Garbage == [t |-> "garbage"]
JNull == [t |-> "null"]
JBool(b) == [t |-> "bool", b |-> b]
JNum(n, f) == [t |-> "num", n |-> n, f |-> f]
JStr(x) == [t |-> "str", s |-> x]
JArr(items) == [t |-> "arr", items |-> items]
JObj(members) == [t |-> "obj", members |-> members]

\* A length test that never finds a body empty
BytesLen0_never(b) == FALSE

\* len(body)
BytesLen0(b) == b.t = "empty"

\* The struct types decoded from responses: field name and Go type, in order.
respErr400 == << <<"Message", "string">>, <<"SpResultCode", "int">> >>

PostCheckPanicResponse ==
    << <<"Status", "int">>, <<"Description", "string">>,
       <<"CheckPanicId", "string">> >>

PutChangeUserMyAlarmResponse == << <<"Message", "string">> >>

GetCheckPanicResponse == << <<"Status", "int">>, <<"Description", "string">> >>

UserMyAlarmResponse ==
    << <<"CustomerID", "string">>, <<"MobilePhone", "string">>,
       <<"MyAlarmPhone", "string">>, <<"Role", "string">>,
       <<"IsPanic", "bool">> >>

GetUserObjectMyAlarmResponse ==
    << <<"ObjectGUID", "string">>, <<"CustomerID", "string">>,
       <<"Role", "string">>, <<"IsPanic", "bool">> >>

GetPartsResponse ==
    << <<"Id", "string">>, <<"PartNumber", "int">>, <<"ObjectNumber", "int">>,
       <<"PartDesc", "string">>, <<"PartEquip", "string">>,
       <<"IsStateArm", "bool">>, <<"IsStateAlarm", "bool">>,
       <<"StateArmDisArmDateTime", "string">> >>

GetZonesResponse ==
    << <<"Id", "string">>, <<"ZoneNumber", "int">>, <<"ZoneDesc", "string">>,
       <<"ZoneEquip", "string">> >>

GetSitesResponse ==
    << <<"RowNumber", "int">>, <<"Id", "string">>, <<"AccountNumber", "int">>,
       <<"CloudObjectID", "int">>, <<"Name", "string">>,
       <<"ObjectPassword", "string">>, <<"Address", "string">>,
       <<"Phone1", "string">>, <<"Phone2", "string">>, <<"TypeName", "string">>,
       <<"IsFire", "bool">>, <<"IsArm", "bool">>, <<"IsPanic", "bool">>,
       <<"DeviceTypeName", "string">>, <<"EventTemplateName", "string">>,
       <<"ContractNumber", "string">>, <<"ContractPrice", "float64">>,
       <<"MoneyBalance", "float64">>, <<"PaymentDate", "string">>,
       <<"DebtInformLevel", "int">>, <<"Disabled", "bool">>,
       <<"DisableReason", "int">>, <<"DisableDate", "string">>,
       <<"AutoEnable", "bool">>, <<"AutoEnableDate", "string">>,
       <<"CustomersComment", "string">>, <<"CommentForOperator", "string">>,
       <<"CommentForGuard", "string">>, <<"MapFileName", "string">>,
       <<"WebLink", "string">>, <<"ControlTime", "int">>,
       <<"CTIgnoreSystemEvent", "bool">>,
       <<"IsContractPriceForceUpdate", "bool">>,
       <<"IsMoneyBalanceForceUpdate", "bool">>,
       <<"IsPaymentDateForceUpdate", "bool">>, <<"IsStateArm", "bool">>,
       <<"IsStateAlarm", "bool">>, <<"IsStatePartArm", "bool">>,
       <<"StateArmDisArmDateTime", "string">> >>

GetCustomerResponse ==
    << <<"Id", "string">>, <<"OrderNumber", "int">>, <<"UserNumber", "int">>,
       <<"ObjCustName", "string">>, <<"ObjCustTitle", "string">>,
       <<"ObjCustPhone1", "string">>, <<"ObjCustPhone2", "string">>,
       <<"ObjCustPhone3", "string">>, <<"ObjCustPhone4", "string">>,
       <<"ObjCustPhone5", "string">>, <<"ObjCustAddress", "string">>,
       <<"IsVisibleInCabinet", "bool">>, <<"ReclosingRequest", "bool">>,
       <<"ReclosingFailure", "bool">>, <<"PINCode", "string">> >>

FieldNames(schema) == {schema[k][1] : k \in DOMAIN schema}

\* The Go type of field name of the struct
TypeOf(schema, name) ==
    LET k == CHOOSE j \in DOMAIN schema : schema[j][1] = name IN schema[k][2]

\* The zero value of a Go type; a float64 n + f/10 is the pair <<n, f>>.
ZeroOf(type) ==
    CASE type = "string" -> ""
      [] type = "int" -> 0
      [] type = "bool" -> FALSE
      [] type = "float64" -> <<0, 0>>

\* T{}: the zero value of the struct
ZeroStruct(schema) == [n \in FieldNames(schema) |-> ZeroOf(TypeOf(schema, n))]

\* Whether JSON value v can be stored in a field of the Go type
Fits(type, v) ==
    CASE type = "string" -> v.t = "str"
      [] type = "int" -> v.t = "num" /\ v.f = 0
      [] type = "bool" -> v.t = "bool"
      [] type = "float64" -> v.t = "num"

\* The Go value of a JSON value that fits the type
GoValue(type, v) ==
    CASE type = "string" -> v.s
      [] type = "int" -> v.n
      [] type = "bool" -> v.b
      [] type = "float64" -> <<v.n, v.f>>

\* json.Marshal of one field value
MarshalValue(type, x) ==
    CASE type = "string" -> JStr(x)
      [] type = "int" -> JNum(x, 0)
      [] type = "bool" -> JBool(x)
      [] type = "float64" -> JNum(x[1], x[2])

\* json.Marshal of a struct: every field, in declaration order
MarshalStruct(schema, r) ==
    JObj([k \in DOMAIN schema |->
            <<schema[k][1], MarshalValue(schema[k][2], r[schema[k][1]])>>])

\* json.Marshal of a slice of structs; a nil slice is null
MarshalSlice(schema, sl) ==
    IF sl.isNil THEN JNull
    ELSE JArr([k \in DOMAIN sl.items |-> MarshalStruct(schema, sl.items[k])])

NilSlice == [isNil |-> TRUE, items |-> <<>>]
EmptySlice == [isNil |-> FALSE, items |-> <<>>]

ErrSyntax == ErrorsNew("json: syntax error")
ErrType == ErrorsNew("json: cannot unmarshal into Go value")

FirstErr(e1, e2) == IF e1.isNil THEN e2 ELSE e1

\* The object decoder: the members in order, each stored in the field of its
\* name (unknown names are skipped, null leaves the field alone); a value of
\* the wrong type is skipped, the first such error is kept and decoding goes on.
RECURSIVE decodeMembers(_, _, _, _)
decodeMembers(schema, members, k, acc) ==
    IF k > Len(members) THEN acc
    ELSE LET key == members[k][1]
             v   == members[k][2]
         IN  IF key \notin FieldNames(schema) \/ v.t = "null"
                THEN decodeMembers(schema, members, k + 1, acc)
             ELSE IF Fits(TypeOf(schema, key), v)
                THEN decodeMembers(schema, members, k + 1,
                        [acc EXCEPT !.val[key] = GoValue(TypeOf(schema, key), v)])
             ELSE decodeMembers(schema, members, k + 1,
                        [acc EXCEPT !.err = FirstErr(acc.err, ErrType)])

\* Decoding JSON value v into a struct that holds val
decodeStruct(schema, v, val) ==
    CASE v.t = "null" -> [val |-> val, err |-> NilErr]
      [] v.t = "obj" ->
           decodeMembers(schema, v.members, 1, [val |-> val, err |-> NilErr])
      [] OTHER -> [val |-> val, err |-> ErrType]

\* The array decoder: each element decoded into a fresh element of the slice
RECURSIVE decodeElements(_, _, _, _)
decodeElements(schema, items, k, acc) ==
    IF k > Len(items) THEN acc
    ELSE LET d == decodeStruct(schema, items[k], ZeroStruct(schema)) IN
         decodeElements(schema, items, k + 1,
            [val |-> [acc.val EXCEPT !.items = Append(acc.val.items, d.val)],
             err |-> FirstErr(acc.err, d.err)])

\* json.Unmarshal(data, &val) for a struct: [val, err].  The bytes are
\* checked to be JSON before anything is stored.
UnmarshalStruct(schema, data, val) ==
    IF data.t \in {"empty", "garbage"} THEN [val |-> val, err |-> ErrSyntax]
    ELSE decodeStruct(schema, data, val)

\* json.Unmarshal(data, &val) for a slice of structs: [val, err]
UnmarshalSlice(schema, data, val) ==
    CASE data.t \in {"empty", "garbage"} -> [val |-> val, err |-> ErrSyntax]
      [] data.t = "null" -> [val |-> NilSlice, err |-> NilErr]
      [] data.t = "arr" ->
           decodeElements(schema, data.items, 1,
                          [val |-> EmptySlice, err |-> NilErr])
      [] OTHER -> [val |-> val, err |-> ErrType]

\* --------------------------------------------------------- generateRequest

NoRequest == [URL |-> [base |-> <<>>, query |-> <<>>], body |-> EmptyBytes,
              apiKey |-> ""]

Built(r) == [panic |-> FALSE, req |-> r]
BuildPanicked == [panic |-> TRUE, req |-> NoRequest]

\* What all generateRequest methods share: baseURL, _ := url.Parse(Host +
\* endpoint); baseURL.RawQuery = param.Encode(); request{baseURL.String(),
\* body, ApiKey}.  The parse error is dropped, so a Host that does not parse
\* leaves baseURL nil and the assignment to baseURL.RawQuery panics.
buildRequest(i, endpoint, param, body) ==
    LET baseURL == urlParse(i.Host \o endpoint) IN
    IF baseURL.isNil THEN BuildPanicked
    ELSE Built([URL    |-> urlString([baseURL EXCEPT !.RawQuery = Encode(param)]),
                body   |-> body,
                apiKey |-> i.ApiKey])

\* AddUserName adding the parameter whether or not a name is given
AddUserName_always(param, i) == Add(param, "userName", i.UserName)

\* if i.UserName != "" { param.Add("userName", i.UserName) }
AddUserName(param, i) ==
    IF i.UserName # "" THEN Add(param, "userName", i.UserName) ELSE param

generateRequest_LegacyGetSites(i) ==
    buildRequest(i, endpointGetSites,
                 AddUserName(Add(<<>>, "id", Itoa(i.IdNum)), i), EmptyBytes)

generateRequest_GetSites(i) ==
    buildRequest(i, endpointGetSites,
                 AddUserName(Add(<<>>, "id", i.Id), i), EmptyBytes)

generateRequest_GetCustomers(i) ==
    buildRequest(i, endpointGetCustomers,
                 AddUserName(Add(<<>>, "siteId", i.SiteId), i), EmptyBytes)

generateRequest_GetCustomer(i) ==
    buildRequest(i, endpointGetCustomers,
                 AddUserName(Add(<<>>, "id", i.Id), i), EmptyBytes)

\* generateRequest of PostCheckPanic sending the input's StopOnEvent
generateRequest_PostCheckPanic_followsInput(i) ==
    LET p1 == Add(Add(<<>>, "siteId", i.SiteId), "stopOnEvent",
                  IF i.StopOnEvent THEN "True" ELSE "False")
        p2 == IF i.CheckInterval # 0
                 THEN Add(p1, "checkInterval", Itoa(i.CheckInterval))
                 ELSE p1
    IN  buildRequest(i, endpointCheckPanic, AddUserName(p2, i), EmptyBytes)

generateRequest_PostCheckPanic(i) ==
    LET p1 == Add(Add(<<>>, "siteId", i.SiteId), "stopOnEvent", "True")
        p2 == IF i.CheckInterval # 0
                 THEN Add(p1, "checkInterval", Itoa(i.CheckInterval))
                 ELSE p1
    IN  buildRequest(i, endpointCheckPanic, AddUserName(p2, i), EmptyBytes)

generateRequest_GetCheckPanic(i) ==
    buildRequest(i, endpointCheckPanic,
                 AddUserName(Add(<<>>, "checkPanicId", i.CheckPanicId), i),
                 EmptyBytes)

generateRequest_GetUsersMyAlarm(i) ==
    buildRequest(i, endpointMyAlarm,
                 AddUserName(Add(<<>>, "siteId", i.SiteId), i), EmptyBytes)

generateRequest_PutChangeUserMyAlarm(i) ==
    buildRequest(i, endpointMyAlarm,
                 AddUserName(Add(Add(<<>>, "custId", i.CustId), "role", i.Role), i),
                 EmptyBytes)

generateRequest_PutChangeKTSUserMyAlarm(i) ==
    buildRequest(i, endpointMyAlarm,
                 AddUserName(Add(Add(<<>>, "custId", i.CustId),
                                 "isPanic", FormatBool(i.IsPanic)), i),
                 EmptyBytes)

\* generateRequest_GetUserObjectMyAlarm leaving the body empty, as the
\* other operations do
generateRequest_GetUserObjectMyAlarm_noBody(i) ==
    buildRequest(i, endpointGetUserObjectMyAlarm, AddUserName(<<>>, i),
                 EmptyBytes)

\* generateRequest_GetUserObjectMyAlarm marshalling every field of the
\* input, as json.Marshal would without the json:"-" tags
generateRequest_GetUserObjectMyAlarm_untagged(i) ==
    buildRequest(i, endpointGetUserObjectMyAlarm, AddUserName(<<>>, i),
                 JObj(<< <<"Phone", JStr(i.Phone)>>,
                         <<"UserName", JStr(i.UserName)>>,
                         <<"ApiKey", JStr(i.ApiKey)>>,
                         <<"Host", JStr(i.Host)>> >>))

\* json.Marshal(i): Phone is the only field not tagged json:"-"
generateRequest_GetUserObjectMyAlarm(i) ==
    buildRequest(i, endpointGetUserObjectMyAlarm, AddUserName(<<>>, i),
                 JObj(<< <<"Phone", JStr(i.Phone)>> >>))

generateRequest_GetParts(i) ==
    buildRequest(i, endpointGetParts,
                 AddUserName(Add(<<>>, "siteId", i.SiteId), i), EmptyBytes)

generateRequest_GetZones(i) ==
    buildRequest(i, endpointGetZones,
                 AddUserName(Add(<<>>, "siteId", i.SiteId), i), EmptyBytes)

\* input.generateRequest() as each facade method calls it
generateRequest(o, i) ==
    CASE o = LegacyGetSites -> generateRequest_LegacyGetSites(i)
      [] o = "GetSites" -> generateRequest_GetSites(i)
      [] o = "Customers" -> generateRequest_GetCustomers(i)
      [] o = "GetCustomer" -> generateRequest_GetCustomer(i)
      [] o = "PostCheckPanic" -> generateRequest_PostCheckPanic(i)
      [] o = "GetCheckPanic" -> generateRequest_GetCheckPanic(i)
      [] o = "GetUsersMyAlarm" -> generateRequest_GetUsersMyAlarm(i)
      [] o = "GetUserObjectMyAlarm" -> generateRequest_GetUserObjectMyAlarm(i)
      [] o = "PutChangeUserMyAlarm" -> generateRequest_PutChangeUserMyAlarm(i)
      [] o = "PutChangeKTSUserMyAlarm" ->
           generateRequest_PutChangeKTSUserMyAlarm(i)
      [] o = "GetParts" -> generateRequest_GetParts(i)
      [] o = "GetZones" -> generateRequest_GetZones(i)

\* The HTTP verb each facade method passes to doHTTP
MethodOf(o) ==
    CASE o = "PostCheckPanic" -> "POST"
      [] o \in {"PutChangeUserMyAlarm", "PutChangeKTSUserMyAlarm"} -> "PUT"
      [] OTHER -> "GET"

\* ------------------------------------------------------------------ client

\* NewClient with no Timeout set on the http.Client
NewClient_noTimeout == [Timeout |-> 0]

\* NewClient(): &Client{client: &http.Client{Timeout: defaultTimeout}}.
\* A Timeout of 0 means no timeout.
NewClient == [Timeout |-> defaultTimeout]

\* The contexts a caller passes: context.Background(), one with a deadline
\* (seconds after the call starts), one the caller can cancel.
Background == [kind |-> "background", deadline |-> 0]
WithDeadline(d) == [kind |-> "deadline", deadline |-> d]
WithCancel == [kind |-> "cancel", deadline |-> 0]
Contexts == {Background, WithCancel} \cup {WithDeadline(d) : d \in {0, 3, MaxDeadline}}

\* ------------------------------------------------------------------ doHTTP

NoHTTPRequest ==
    [Method |-> "", URL |-> [base |-> <<>>, query |-> <<>>], Header |-> <<>>,
     Body |-> EmptyBytes, ctx |-> Background]

\* The headers doHTTP sets: the legacy doHTTP sets apiKey, the current one
\* apiKey and Content-Type.
HeadersOf(o, r) ==
    IF o = LegacyGetSites THEN << <<"apiKey", r.apiKey>> >>
    ELSE << <<"apiKey", r.apiKey>>, <<"Content-Type", "application/json">> >>

\* http.NewRequestWithContext(ctx, method, r.URL, bytes.NewBuffer(r.body)),
\* then the headers: [err, req].  It parses r.URL again and fails when that
\* does not parse.
newRequest(o, c, r) ==
    IF urlParse(r.URL.base).isNil
       THEN [err |-> ErrorsNew("net/url: parse error"), req |-> NoHTTPRequest]
    ELSE [err |-> NilErr,
          req |-> [Method |-> MethodOf(o), URL |-> r.URL,
                   Header |-> HeadersOf(o, r), Body |-> r.body, ctx |-> c]]

\* What doHTTP returns: ([]byte, error)
Bytes(b) == [returned |-> TRUE, body |-> b, err |-> NilErr]
Failure(e) == [returned |-> TRUE, body |-> EmptyBytes, err |-> e]
NotReturned == [returned |-> FALSE, body |-> EmptyBytes, err |-> NilErr]

ErrNet == ErrorsNew("dial tcp: connection refused")
ErrTimeout == ErrorsNew("context deadline exceeded or canceled")
ErrBodyRead == ErrorsNew("unexpected EOF")

\* doHTTP when NewRequestWithContext failed
doHTTP_requestFailed(e) == Failure(WithMessage(e, ErrCreateRequest))

\* doHTTP when c.client.Do(req) failed
doHTTP_doFailed(e) == Failure(WithMessage(e, ErrDoRequest))

\* doHTTP_status with only the 5xx statuses taken as failures
doHTTP_status_serverErrorsOnly(status) ==
    IF status = StatusBadRequest THEN [read |-> TRUE, ret |-> Failure(NilErr)]
    ELSE IF status >= 500
         THEN [read |-> FALSE, ret |-> Failure(ErrorsNew(ErrDoRequest))]
    ELSE [read |-> TRUE, ret |-> Failure(NilErr)]

\* doHTTP once c.client.Do(req) has returned a response with this status:
\* whether it goes on to read the body, and what it returns when it does not.
doHTTP_status(status) ==
    IF status = StatusBadRequest THEN [read |-> TRUE, ret |-> Failure(NilErr)]
    ELSE IF status # StatusOK
         THEN [read |-> FALSE, ret |-> Failure(ErrorsNew(ErrDoRequest))]
    ELSE [read |-> TRUE, ret |-> Failure(NilErr)]

\* doHTTP_body400 with the fixed message in place of the decoded one
doHTTP_body400_fixedMessage(cerr, buf) ==
    IF ~cerr.isNil THEN Failure(WithMessage(cerr, ErrDoRequest))
    ELSE LET d == UnmarshalStruct(respErr400, buf, ZeroStruct(respErr400)) IN
         IF ~d.err.isNil THEN Failure(d.err)
         ELSE Failure(ErrorsNew(ErrDoRequest))

\* doHTTP after io.Copy(&buf, resp.Body) of a 400 response: cerr is what
\* io.Copy returned and buf what it had copied.
doHTTP_body400(cerr, buf) ==
    IF ~cerr.isNil THEN Failure(WithMessage(cerr, ErrDoRequest))
    ELSE LET d == UnmarshalStruct(respErr400, buf, ZeroStruct(respErr400)) IN
         IF ~d.err.isNil THEN Failure(d.err)
         ELSE Failure(ErrorsNew(d.val["Message"]))

\* doHTTP_body200 returning an empty slice in place of the buffer
doHTTP_body200_emptySlice(cerr, buf) ==
    IF ~cerr.isNil THEN Failure(WithMessage(cerr, ErrReadResponse))
    ELSE Bytes(EmptyBytes)

\* doHTTP after io.Copy(&buf, resp.Body) of a 200 response
doHTTP_body200(cerr, buf) ==
    IF ~cerr.isNil THEN Failure(WithMessage(cerr, ErrReadResponse))
    ELSE Bytes(buf)

doHTTP_body(status, cerr, buf) ==
    IF status = StatusBadRequest THEN doHTTP_body400(cerr, buf)
    ELSE doHTTP_body200(cerr, buf)

\* ----------------------------------------------------------------- facades

\* The response type of each operation and whether it is a slice of it
SchemaOf(o) ==
    CASE o \in {LegacyGetSites, "GetSites"} -> GetSitesResponse
      [] o \in {"Customers", "GetCustomer"} -> GetCustomerResponse
      [] o = "PostCheckPanic" -> PostCheckPanicResponse
      [] o = "GetCheckPanic" -> GetCheckPanicResponse
      [] o = "GetUsersMyAlarm" -> UserMyAlarmResponse
      [] o = "PutChangeUserMyAlarm" -> PutChangeUserMyAlarmResponse
      [] o = "GetUserObjectMyAlarm" -> GetUserObjectMyAlarmResponse
      [] o = "GetParts" -> GetPartsResponse
      [] o = "GetZones" -> GetZonesResponse
      [] o = "PutChangeKTSUserMyAlarm" -> <<>>

SliceOps ==
    {"Customers", "GetUsersMyAlarm", "GetUserObjectMyAlarm", "GetParts",
     "GetZones"}
NoResultOps == {"PutChangeKTSUserMyAlarm"}
StructOps == Ops \ (SliceOps \cup NoResultOps)

\* PutChangeKTSUserMyAlarm returns an error only
NoResult == [none |-> TRUE]

\* What a facade returns next to a non-nil error: T{} or []T{}
FailResult(o) ==
    IF o \in NoResultOps THEN NoResult
    ELSE IF o \in SliceOps THEN EmptySlice
    ELSE ZeroStruct(SchemaOf(o))

\* The variable the facade decodes into: var resp T, var resp []T, or (in
\* Customers) resp := []GetCustomerResponse{}
DecodeTarget(o) ==
    IF o = "Customers" THEN EmptySlice
    ELSE IF o \in SliceOps THEN NilSlice
    ELSE ZeroStruct(SchemaOf(o))

Return(result, e) == [kind |-> "return", result |-> result, err |-> e]
Panic == [kind |-> "panic", result |-> NoResult, err |-> NilErr]
NoOutcome == [kind |-> "none", result |-> NoResult, err |-> NilErr]

\* facadeAfterHTTP with PutChangeKTSUserMyAlarm decoding the body it is given
facadeAfterHTTP_decodeKTS(o, d) ==
    IF ~d.err.isNil THEN Return(FailResult(o), d.err)
    ELSE IF o \in NoResultOps
         THEN IF d.body.t \in {"empty", "garbage"}
                 THEN Return(NoResult, WithMessage(ErrSyntax, ErrParseResponse))
              ELSE Return(NoResult, NilErr)
    ELSE IF o = "PutChangeUserMyAlarm" /\ BytesLen0(d.body)
         THEN Return(DecodeTarget(o), NilErr)
    ELSE LET u == IF o \in SliceOps
                     THEN UnmarshalSlice(SchemaOf(o), d.body, DecodeTarget(o))
                     ELSE UnmarshalStruct(SchemaOf(o), d.body, DecodeTarget(o))
         IN  IF ~u.err.isNil
                THEN Return(FailResult(o), WithMessage(u.err, ErrParseResponse))
             ELSE Return(u.val, NilErr)

\* facadeAfterHTTP returning the decode error as json.Unmarshal gave it
facadeAfterHTTP_unwrapped(o, d) ==
    IF ~d.err.isNil THEN Return(FailResult(o), d.err)
    ELSE IF o \in NoResultOps THEN Return(NoResult, NilErr)
    ELSE IF o = "PutChangeUserMyAlarm" /\ BytesLen0(d.body)
         THEN Return(DecodeTarget(o), NilErr)
    ELSE LET u == IF o \in SliceOps
                     THEN UnmarshalSlice(SchemaOf(o), d.body, DecodeTarget(o))
                     ELSE UnmarshalStruct(SchemaOf(o), d.body, DecodeTarget(o))
         IN  IF ~u.err.isNil THEN Return(FailResult(o), u.err)
             ELSE Return(u.val, NilErr)

\* The facade once doHTTP has returned (body, err)
facadeAfterHTTP(o, d) ==
    IF ~d.err.isNil THEN Return(FailResult(o), d.err)
    ELSE IF o \in NoResultOps THEN Return(NoResult, NilErr)
    ELSE IF o = "PutChangeUserMyAlarm" /\ BytesLen0(d.body)
         THEN Return(DecodeTarget(o), NilErr)
    ELSE LET u == IF o \in SliceOps
                     THEN UnmarshalSlice(SchemaOf(o), d.body, DecodeTarget(o))
                     ELSE UnmarshalStruct(SchemaOf(o), d.body, DecodeTarget(o))
         IN  IF ~u.err.isNil
                THEN Return(FailResult(o), WithMessage(u.err, ErrParseResponse))
             ELSE Return(u.val, NilErr)

\* The facade from the return of input.validate() to the point where
\* c.client.Do(req) is entered: v is what validate returned, g what
\* generateRequest does for the input, n what the start of doHTTP does with
\* the request.  [sent, out, req, httpReq, ret]
facadeSteps(o, v, g, n) ==
    IF v.panic
       THEN [sent |-> FALSE, out |-> Panic, req |-> NoRequest,
             httpReq |-> NoHTTPRequest, ret |-> NotReturned]
    ELSE IF ~v.err.isNil
       THEN [sent |-> FALSE, out |-> Return(FailResult(o), v.err),
             req |-> NoRequest, httpReq |-> NoHTTPRequest,
             ret |-> NotReturned]
    ELSE IF g.panic
       THEN [sent |-> FALSE, out |-> Panic, req |-> NoRequest,
             httpReq |-> NoHTTPRequest, ret |-> NotReturned]
    ELSE IF ~n.err.isNil
       THEN [sent |-> FALSE,
             out |-> facadeAfterHTTP(o, doHTTP_requestFailed(n.err)),
             req |-> g.req, httpReq |-> NoHTTPRequest,
             ret |-> doHTTP_requestFailed(n.err)]
    ELSE [sent |-> TRUE, out |-> NoOutcome, req |-> g.req,
          httpReq |-> n.req, ret |-> NotReturned]

\* doHTTP up to c.client.Do(req), for the request generateRequest built
startHTTP(o, c, g) ==
    IF g.panic THEN [err |-> NilErr, req |-> NoHTTPRequest]
    ELSE newRequest(o, c, g.req)

\* The facade up to the point where c.client.Do(req) is entered: validate,
\* generateRequest and the start of doHTTP.
facadeStart(o, i, c) ==
    facadeSteps(o, validate(o, i), generateRequest(o, i),
                startHTTP(o, c, generateRequest(o, i)))

\* --------------------------------------------------------------- responses

IndexOfField(schema, name) == CHOOSE j \in DOMAIN schema : schema[j][1] = name

\* A struct with every field set and no two fields alike where the types allow
FilledStruct(schema) ==
    [n \in FieldNames(schema) |->
        CASE TypeOf(schema, n) = "string" -> n
          [] TypeOf(schema, n) = "int" -> IndexOfField(schema, n)
          [] TypeOf(schema, n) = "bool" -> TRUE
          [] TypeOf(schema, n) = "float64" -> <<IndexOfField(schema, n), 5>>]

\* The response records tried for an operation
SampleResults(o) ==
    IF o \in NoResultOps THEN {}
    ELSE IF o \in SliceOps
       THEN {NilSlice, EmptySlice,
             [isNil |-> FALSE,
              items |-> <<FilledStruct(SchemaOf(o)), ZeroStruct(SchemaOf(o))>>]}
    ELSE {ZeroStruct(SchemaOf(o)), FilledStruct(SchemaOf(o))}

\* json.Marshal of a response record of the operation
MarshalResult(o, r) ==
    IF o \in SliceOps THEN MarshalSlice(SchemaOf(o), r)
    ELSE MarshalStruct(SchemaOf(o), r)

Err400Body == JObj(<< <<"Message", JStr("bad site")>>, <<"SpResultCode", JNum(7, 0)>> >>)
Err400Empty == JObj(<< <<"Message", JStr("")>>, <<"SpResultCode", JNum(0, 0)>> >>)
Err400IllTyped == JObj(<< <<"Message", JNum(5, 0)>>, <<"SpResultCode", JNum(7, 0)>> >>)
\* A 400 body whose Message is the text of a failed connection attempt
Err400Spoof ==
    JObj(<< <<"Message", JStr(Description(doHTTP_doFailed(ErrNet).err))>>,
            <<"SpResultCode", JNum(0, 0)>> >>)

\* A body that fills every field of the record and then holds a value of the
\* wrong type, so that decoding fails with the record already written to.
IllTypedBody(o) ==
    LET good == MarshalStruct(SchemaOf(o), FilledStruct(SchemaOf(o)))
        bad  == JObj(good.members \o << <<SchemaOf(o)[1][1], JArr(<<>>)>> >>)
    IN  IF o \in SliceOps THEN JArr(<<good, bad>>) ELSE bad

\* The response bodies tried for an operation
BodiesOf(o) ==
    {EmptyBytes, Garbage, JNull, Err400Body, Err400Empty, Err400IllTyped,
     Err400Spoof}
    \cup {MarshalResult(o, r) : r \in SampleResults(o)}
    \cup (IF o \in NoResultOps THEN {} ELSE {IllTypedBody(o)})

Statuses == {StatusOK, StatusBadRequest, 404, 500}

NoResponse == [StatusCode |-> 0, Body |-> EmptyBytes]

\* What io.Copy can have copied when it fails: nothing, a truncated document,
\* or all of the body with the error met before the end of the stream.
PartialReads(body) ==
    IF body.t = "empty" THEN {EmptyBytes} ELSE {EmptyBytes, Garbage, body}

\* ------------------------------------------------------ concurrent callers

\* The goroutines that call methods of one Client at the same time
Callers == 1..NumCallers

\* The frame of a caller's invocation: the facade method's parameters and
\* local variables, which live on the goroutine's stack.  pc is idle,
\* validate, generate, doHTTP, awaitHeaders, panicking or done.
IdleFrame ==
    [pc |-> "idle", op |-> "", input |-> ZeroInput, req |-> NoRequest,
     httpReq |-> NoHTTPRequest, resp |-> NoResponse, out |-> NoOutcome]

\* ------------------------------------------------------------------- state

Init ==
    /\ pc = "idle"
    /\ op = ""
    /\ input = ZeroInput
    /\ ctx = Background
    /\ req = NoRequest
    /\ httpReq = NoHTTPRequest
    /\ transportCalls = 0
    /\ elapsed = 0
    /\ cancelled = FALSE
    /\ resp = NoResponse
    /\ bodyReads = 0
    /\ copyErr = NilErr
    /\ ret = NotReturned
    /\ out = NoOutcome
    /\ client = NewClient
    /\ calls = [k \in Callers |-> IdleFrame]
    /\ crashed = FALSE

InFlight == pc \in {"awaitHeaders", "readBody"}

\* Whether the exchange has to be aborted now: the client's Timeout has
\* elapsed, or the context of the request is done.
TimerDue ==
    \/ NewClient.Timeout > 0 /\ elapsed >= NewClient.Timeout
    \/ httpReq.ctx.kind = "deadline" /\ elapsed >= httpReq.ctx.deadline
    \/ httpReq.ctx.kind = "cancel" /\ cancelled

\* Whether the transport can carry the request at all
Routable == urlParse(httpReq.URL.base).Scheme = <<"h", "t", "t", "p">>

\* doHTTP returns d and the facade method ends.
Finish(d) ==
    /\ ret' = d
    /\ out' = facadeAfterHTTP(op, d)
    /\ pc' = "done"

\* The state once the facade has run up to st, the point where it returns,
\* panics or waits in c.client.Do(req).
Started(st) ==
    /\ req' = st.req
    /\ httpReq' = st.httpReq
    /\ ret' = st.ret
    /\ out' = st.out
    /\ transportCalls' = IF st.sent THEN transportCalls + 1 ELSE transportCalls
    /\ pc' = IF st.sent THEN "awaitHeaders" ELSE "done"

\* A caller invokes operation o of the client with input i and context c: the
\* facade runs until it returns, panics, or waits in c.client.Do(req).
Call(o, i, c) ==
    /\ pc = "idle"
    /\ op' = o
    /\ input' = i
    /\ ctx' = c
    /\ Started(facadeStart(o, i, c))
    /\ UNCHANGED concVars
    /\ UNCHANGED <<elapsed, cancelled, resp, bodyReads, copyErr>>

\* The instants at which a timer of the exchange expires, and the horizon.
Instants ==
    (IF NewClient.Timeout > 0 THEN {NewClient.Timeout} ELSE {})
    \cup (IF httpReq.ctx.kind = "deadline" THEN {httpReq.ctx.deadline} ELSE {})
    \cup {MaxElapsed}

\* Time passes, up to the next instant at which a timer expires: what comes
\* in between reaches doHTTP before that timer.
Tick ==
    /\ InFlight
    /\ ~TimerDue
    /\ elapsed < MaxElapsed
    /\ elapsed' = CHOOSE t \in Instants :
                     /\ t > elapsed
                     /\ \A u \in Instants : u > elapsed => t <= u
    /\ UNCHANGED concVars
    /\ UNCHANGED <<pc, op, input, ctx, req, httpReq, transportCalls, cancelled,
                   resp, bodyReads, copyErr, ret, out>>

\* The caller cancels the context it passed.
CancelCtx ==
    /\ InFlight
    /\ ctx.kind = "cancel"
    /\ ~cancelled
    /\ cancelled' = TRUE
    /\ UNCHANGED concVars
    /\ UNCHANGED <<pc, op, input, ctx, req, httpReq, transportCalls, elapsed,
                   resp, bodyReads, copyErr, ret, out>>

\* c.client.Do(req) fails: no connection, or a scheme the transport lacks.
TransportError ==
    /\ pc = "awaitHeaders"
    /\ ~TimerDue
    /\ Finish(doHTTP_doFailed(ErrNet))
    /\ UNCHANGED concVars
    /\ UNCHANGED <<op, input, ctx, req, httpReq, transportCalls, elapsed,
                   cancelled, resp, bodyReads, copyErr>>

\* The timeout or the context ends the exchange: c.client.Do(req), or the
\* io.Copy in progress, returns the error.
TimerAbort ==
    /\ InFlight
    /\ TimerDue
    /\ IF pc = "awaitHeaders"
          THEN /\ Finish(doHTTP_doFailed(ErrTimeout))
               /\ copyErr' = copyErr
          ELSE /\ \E buf \in PartialReads(resp.Body) :
                     Finish(doHTTP_body(resp.StatusCode, ErrTimeout, buf))
               /\ copyErr' = ErrTimeout
    /\ UNCHANGED concVars
    /\ UNCHANGED <<op, input, ctx, req, httpReq, transportCalls, elapsed,
                   cancelled, resp, bodyReads>>

\* c.client.Do(req) returns a response with this status, whose body will be
\* b; doHTTP returns at once or starts io.Copy(&buf, resp.Body).
ReceiveHeaders(status, b) ==
    /\ pc = "awaitHeaders"
    /\ ~TimerDue
    /\ Routable
    /\ resp' = [StatusCode |-> status, Body |-> b]
    /\ IF doHTTP_status(status).read
          THEN /\ bodyReads' = bodyReads + 1
               /\ pc' = "readBody"
               /\ UNCHANGED <<ret, out>>
          ELSE /\ bodyReads' = bodyReads
               /\ Finish(doHTTP_status(status).ret)
    /\ UNCHANGED concVars
    /\ UNCHANGED <<op, input, ctx, req, httpReq, transportCalls, elapsed,
                   cancelled, copyErr>>

\* io.Copy reaches the end of the body: doHTTP returns and the facade decodes.
ReadBodyComplete ==
    /\ pc = "readBody"
    /\ ~TimerDue
    /\ copyErr' = NilErr
    /\ Finish(doHTTP_body(resp.StatusCode, NilErr, resp.Body))
    /\ UNCHANGED concVars
    /\ UNCHANGED <<op, input, ctx, req, httpReq, transportCalls, elapsed,
                   cancelled, resp, bodyReads>>

\* io.Copy fails on the connection with buf copied so far.
ReadBodyError(buf) ==
    /\ pc = "readBody"
    /\ ~TimerDue
    /\ copyErr' = ErrBodyRead
    /\ Finish(doHTTP_body(resp.StatusCode, ErrBodyRead, buf))
    /\ UNCHANGED concVars
    /\ UNCHANGED <<op, input, ctx, req, httpReq, transportCalls, elapsed,
                   cancelled, resp, bodyReads>>

Next ==
    \/ /\ pc = "idle"
       /\ \E o \in Ops : \E i \in InputsOf(o) : \E c \in Contexts : Call(o, i, c)
    \/ Tick
    \/ CancelCtx
    \/ TransportError
    \/ TimerAbort
    \/ /\ pc = "awaitHeaders"
       /\ \E status \in Statuses : \E b \in BodiesOf(op) : ReceiveHeaders(status, b)
    \/ ReadBodyComplete
    \/ /\ pc = "readBody"
       /\ \E buf \in PartialReads(resp.Body) : ReadBodyError(buf)

Spec == Init /\ [][Next]_vars

\* ------------------------------------------------- concurrent invocations

HostGiven == [ZeroInput EXCEPT !.ApiKey = "k1", !.Host = HostHttp]

\* The calls the concurrent callers make: two that reach the provider, one
\* that validation rejects, one whose Host does not parse and one whose
\* phone has a single character.
ConcCalls ==
    {<<"GetSites", [HostGiven EXCEPT !.Id = "s1"]>>,
     <<"Customers", [HostGiven EXCEPT !.SiteId = "s1", !.UserName = "u 1"]>>,
     <<"GetSites", [HostGiven EXCEPT !.Id = "s1", !.ApiKey = ""]>>,
     <<"GetSites", [HostGiven EXCEPT !.Id = "s1", !.Host = HostPort]>>,
     <<"GetUserObjectMyAlarm", [HostGiven EXCEPT !.Phone = PhoneOneChar]>>}

\* The responses the provider gives them
ConcStatuses == {StatusOK, StatusBadRequest, 500}
ConcBodies(o) ==
    {Garbage, Err400Body,
     MarshalResult(o, IF o \in SliceOps
                         THEN [isNil |-> FALSE,
                               items |-> <<FilledStruct(SchemaOf(o))>>]
                         ELSE FilledStruct(SchemaOf(o)))}

\* The frame of caller k replaced by f; the Client is only read.
SetFrame(k, f) ==
    /\ calls' = [calls EXCEPT ![k] = f]
    /\ client' = client
    /\ UNCHANGED seqVars

\* The frame f once its facade method has ended with outcome o
Ended(f, o) ==
    [f EXCEPT !.pc = IF o.kind = "panic" THEN "panicking" ELSE "done",
              !.out = o]

\* Caller k invokes operation o of the shared Client with input i, which
\* the method receives by value.
ConcInvoke(k, o, i) ==
    /\ ~crashed /\ calls[k].pc = "idle"
    /\ SetFrame(k, [calls[k] EXCEPT !.pc = "validate", !.op = o, !.input = i])
    /\ UNCHANGED crashed

\* if err := input.validate(); err != nil { return T{}, err }
ConcValidated(f, v) ==
    IF v.panic THEN Ended(f, Panic)
    ELSE IF ~v.err.isNil THEN Ended(f, Return(FailResult(f.op), v.err))
    ELSE [f EXCEPT !.pc = "generate"]

ConcValidate(k) ==
    /\ ~crashed /\ calls[k].pc = "validate"
    /\ SetFrame(k, ConcValidated(calls[k], validate(calls[k].op, calls[k].input)))
    /\ UNCHANGED crashed

\* req := input.generateRequest()
ConcGenerated(f, g) ==
    IF g.panic THEN Ended(f, Panic)
    ELSE [f EXCEPT !.pc = "doHTTP", !.req = g.req]

ConcGenerate(k) ==
    /\ ~crashed /\ calls[k].pc = "generate"
    /\ SetFrame(k, ConcGenerated(calls[k],
                                 generateRequest(calls[k].op, calls[k].input)))
    /\ UNCHANGED crashed

\* c.doHTTP(ctx, method, req) up to c.client.Do(req), which reads c.client
ConcSent(f, n) ==
    IF ~n.err.isNil
       THEN Ended(f, facadeAfterHTTP(f.op, doHTTP_requestFailed(n.err)))
    ELSE [f EXCEPT !.pc = "awaitHeaders", !.httpReq = n.req]

ConcSend(k) ==
    /\ ~crashed /\ calls[k].pc = "doHTTP"
    /\ client.Timeout = defaultTimeout
    /\ SetFrame(k, ConcSent(calls[k],
                            newRequest(calls[k].op, Background, calls[k].req)))
    /\ UNCHANGED crashed


\* What doHTTP returns for a response with this status whose body b is read
\* to its end
doHTTP_response(status, b) ==
    IF doHTTP_status(status).read THEN doHTTP_body(status, NilErr, b)
    ELSE doHTTP_status(status).ret

\* c.client.Do(req) of caller k fails; doHTTP and the facade method return.
ConcTransportError(k) ==
    /\ ~crashed /\ calls[k].pc = "awaitHeaders"
    /\ SetFrame(k, Ended(calls[k],
                         facadeAfterHTTP(calls[k].op, doHTTP_doFailed(ErrNet))))
    /\ UNCHANGED crashed

\* The provider answers caller k; doHTTP reads the body into its own buffer
\* and the facade method decodes into its own resp.
ConcRespond(k, status, b) ==
    /\ ~crashed /\ calls[k].pc = "awaitHeaders"
    /\ SetFrame(k, Ended([calls[k] EXCEPT
                             !.resp = [StatusCode |-> status, Body |-> b]],
                         facadeAfterHTTP(calls[k].op,
                                         doHTTP_response(status, b))))
    /\ UNCHANGED crashed

\* The panic of caller k's invocation is recovered in k's goroutine.
CallerRecovers(k) ==
    /\ ~crashed /\ calls[k].pc = "panicking"
    /\ SetFrame(k, [calls[k] EXCEPT !.pc = "done"])
    /\ UNCHANGED crashed

\* The panic of caller k's invocation is not recovered: the Go runtime ends
\* the process, and with it every other goroutine.
ProcessExits(k) ==
    /\ ~crashed /\ calls[k].pc = "panicking"
    /\ crashed' = TRUE
    /\ UNCHANGED <<seqVars, client, calls>>

NextConcurrent ==
    \/ \E k \in Callers : \E c \in ConcCalls : ConcInvoke(k, c[1], c[2])
    \/ \E k \in Callers : ConcValidate(k)
    \/ \E k \in Callers : ConcGenerate(k)
    \/ \E k \in Callers : ConcSend(k)
    \/ \E k \in Callers : ConcTransportError(k)
    \/ \E k \in Callers :
          /\ calls[k].pc = "awaitHeaders"
          /\ \E status \in ConcStatuses : \E b \in ConcBodies(calls[k].op) :
                ConcRespond(k, status, b)
    \/ \E k \in Callers : CallerRecovers(k)
    \/ \E k \in Callers : ProcessExits(k)

SpecConcurrent == Init /\ [][NextConcurrent]_vars

\* ------------------------------------------------------------------ claims

Done == pc = "done"

\* The facade returned this validation error without building a request or
\* invoking the transport.
RejectedWith(m) ==
    /\ out = Return(FailResult(op), ErrorsNew(m))
    /\ req = NoRequest
    /\ transportCalls = 0

Rejected == \E m \in ValidationMessages : RejectedWith(m)

\* The facade returned a failure and no result.
Failed ==
    /\ out.kind = "return"
    /\ ~out.err.isNil
    /\ out.result = FailResult(op)

\* The identifying field of the input is missing.
MissingId ==
    CASE op = LegacyGetSites -> input.IdNum < 1
      [] op \in {"GetSites", "GetCustomer"} -> input.Id = ""
      [] op \in {"Customers", "PostCheckPanic", "GetUsersMyAlarm", "GetParts",
                 "GetZones"} -> input.SiteId = ""
      [] op = "GetCheckPanic" -> input.CheckPanicId = ""
      [] op \in {"PutChangeUserMyAlarm", "PutChangeKTSUserMyAlarm"} ->
           input.CustId = ""
      [] op = "GetUserObjectMyAlarm" -> input.Phone = <<>>

ConfigGiven == input.ApiKey # "" /\ input.Host # <<>>

\* C1: an invocation whose input lacks its identifying field (legacy GetSites:
\* Id < 1), its ApiKey or its Host returns a validation error, builds no
\* request and never invokes the transport.
C1_MissingFieldRejected ==
    Done /\ (MissingId \/ ~ConfigGiven) => Rejected

\* The body is exactly {"Message": m, "SpResultCode": c}.
IsErr400Object(b) ==
    /\ b.t = "obj"
    /\ Len(b.members) = 2
    /\ b.members[1][1] = "Message" /\ b.members[1][2].t = "str"
    /\ b.members[2][1] = "SpResultCode" /\ b.members[2][2].t = "num"

\* The body of the response was read to its end.
BodyReadToEnd == bodyReads = 1 /\ copyErr.isNil /\ ret.returned

\* C2: a call answered with HTTP 400 ends in a failure with no result and no
\* bytes from doHTTP, and when the body read is {"Message": m, "SpResultCode":
\* c} the description of the failure is m.
C2_BadRequestFails ==
    Done /\ resp.StatusCode = StatusBadRequest =>
        /\ Failed
        /\ ret.body = EmptyBytes /\ ~ret.err.isNil
        /\ BodyReadToEnd /\ IsErr400Object(resp.Body) =>
              /\ out.err.msg = <<resp.Body.members[1][2].s>>
              /\ ret.err = out.err

C2_Witness ==
    /\ Done /\ resp.StatusCode = StatusBadRequest
    /\ BodyReadToEnd /\ resp.Body = Err400Body
    /\ out.err.msg = <<"bad site">>

\* C3: a response whose status is neither 200 nor 400 makes doHTTP return
\* the fixed failure whatever the body holds, without reading the body, and
\* the facade returns that failure with no result.
C3_OtherStatusGenericFailure ==
    Done /\ resp # NoResponse
         /\ resp.StatusCode \notin {StatusOK, StatusBadRequest} =>
        /\ ret = Failure(ErrorsNew(ErrDoRequest))
        /\ bodyReads = 0
        /\ out = Return(FailResult(op), ErrorsNew(ErrDoRequest))

C3_Witness ==
    /\ Done /\ resp.StatusCode = 500 /\ resp.Body = Err400Body
    /\ out.err = ErrorsNew(ErrDoRequest) /\ bodyReads = 0

\* C4: after an HTTP 200 whose body was read to its end doHTTP returns the
\* body as it is, and when the body is the JSON encoding of a response record
\* (or list of records) R of the operation the facade returns R and no error.
C4_OKRoundTrip ==
    Done /\ resp.StatusCode = StatusOK /\ BodyReadToEnd =>
        /\ ret = Bytes(resp.Body)
        /\ \A r \in SampleResults(op) :
              resp.Body = MarshalResult(op, r) => out = Return(r, NilErr)

C4_Witness ==
    /\ Done /\ resp.StatusCode = StatusOK /\ BodyReadToEnd
    /\ op = "GetSites"
    /\ resp.Body = MarshalResult(op, FilledStruct(GetSitesResponse))
    /\ out = Return(FilledStruct(GetSitesResponse), NilErr)

\* C5: PostCheckPanic with SiteId, ApiKey and Host given is rejected by
\* validation exactly when CheckInterval is neither 0 nor in 31..179.
C5_CheckIntervalRange ==
    Done /\ op = "PostCheckPanic" /\ ~MissingId /\ ConfigGiven =>
        (Rejected <=> ~(input.CheckInterval = 0
                        \/ (30 < input.CheckInterval
                            /\ input.CheckInterval < 180)))

C5_Witness ==
    /\ Done /\ op = "PostCheckPanic" /\ ~MissingId /\ ConfigGiven
    /\ input.CheckInterval = 30
    /\ RejectedWith(ErrBadInterval)

\* The phone is 12 characters long and starts with "+7".
PhoneWellFormed ==
    /\ Len(input.Phone) = 12
    /\ SubSeq(input.Phone, 1, 2) = <<"+", "7">>

\* C6: GetUserObjectMyAlarm rejects with a validation error every phone that
\* is not 12 characters long or does not start with "+7".
C6_PhoneRejected ==
    Done /\ op = "GetUserObjectMyAlarm" /\ ~PhoneWellFormed => Rejected

\* C7: PutChangeUserMyAlarm with CustId, ApiKey and Host given is rejected by
\* validation, with no HTTP call, exactly when Role is not admin, user or
\* unlink.
C7_RoleEnumeration ==
    Done /\ op = "PutChangeUserMyAlarm" /\ ~MissingId /\ ConfigGiven =>
        (Rejected <=> input.Role \notin {"admin", "user", "unlink"})

C7_Witness ==
    /\ Done /\ op = "PutChangeUserMyAlarm" /\ ~MissingId /\ ConfigGiven
    /\ input.Role = "Admin"
    /\ RejectedWith(ErrBadRole)

\* C8: an invocation whose input passes validation has invoked the transport
\* exactly once by the time it ends.
C8_ExactlyOneAttempt ==
    Done /\ validate(op, input) = Returned(NilErr) => transportCalls = 1

\* C9: a facade call ends by returning either a result and no error or an
\* error and the empty result.
C9_ResultOrError ==
    Done => /\ out.kind = "return"
            /\ (out.err.isNil \/ out.result = FailResult(op))

\* C10: an exchange is never in flight after the client's timeout or the
\* caller's deadline, and a call whose timeout, deadline or cancellation came
\* while it was in flight returns a failure and no result.
TimedOut ==
    \/ elapsed >= defaultTimeout
    \/ ctx.kind = "deadline" /\ elapsed >= ctx.deadline
    \/ ctx.kind = "cancel" /\ cancelled

C10_AbortOnTimeout ==
    /\ InFlight => /\ elapsed <= defaultTimeout
                   /\ ctx.kind = "deadline" => elapsed <= ctx.deadline
    /\ Done /\ transportCalls = 1 /\ TimedOut => Failed

C10_Witness ==
    /\ Done /\ resp.StatusCode = StatusOK /\ copyErr = ErrTimeout
    /\ ctx = WithDeadline(3) /\ elapsed = 3
    /\ Failed

\* C11: PutChangeKTSUserMyAlarm with a valid input, answered with HTTP 200
\* and an empty body read to its end, returns a nil error.
C11_KTSEmptyBodySucceeds ==
    Done /\ op = "PutChangeKTSUserMyAlarm" /\ resp.StatusCode = StatusOK
         /\ BodyReadToEnd /\ resp.Body = EmptyBytes =>
        /\ ret = Bytes(EmptyBytes)
        /\ out = Return(NoResult, NilErr)

C11_Witness ==
    /\ Done /\ op = "PutChangeKTSUserMyAlarm" /\ resp.StatusCode = StatusOK
    /\ BodyReadToEnd /\ resp.Body = EmptyBytes
    /\ validate(op, input) = Returned(NilErr) /\ transportCalls = 1
    /\ out.kind = "return" /\ out.err.isNil

\* The pairs of the query string of the request built
QueryPairs == {req.URL.query[j] : j \in DOMAIN req.URL.query}

\* The facade built a request descriptor for the input.
RequestBuilt == Done /\ req # NoRequest

\* C12: the isPanic parameter of PutChangeKTSUserMyAlarm is sent as the
\* literal "True" when IsPanic is true and "False" when it is false.
C12_BoolLiteral ==
    RequestBuilt /\ op = "PutChangeKTSUserMyAlarm" =>
        <<"isPanic", IF input.IsPanic THEN "True" ELSE "False">> \in QueryPairs

\* The names of the headers of the HTTP request handed to the transport
HeaderNames == {httpReq.Header[j][1] : j \in DOMAIN httpReq.Header}

\* C13: a request handed to the transport carries the apiKey header, and it
\* carries Content-Type: application/json exactly when the operation is
\* GetUserObjectMyAlarm, the one that sends a body.
C13_ContentTypeOnlyWithBody ==
    transportCalls = 1 =>
        /\ <<"apiKey", input.ApiKey>> \in
              {httpReq.Header[j] : j \in DOMAIN httpReq.Header}
        /\ ("Content-Type" \in HeaderNames <=> op = "GetUserObjectMyAlarm")

\* The body is not JSON, or is JSON that json.Unmarshal cannot store in the
\* response type of the operation: a value of the wrong kind at the top or
\* in a field of the type.  (null, and an object whose members the type does
\* not name, are stored without error.)
NotExpectedShape(o, b) ==
    \/ b.t \in {"empty", "garbage"}
    \/ b = IllTypedBody(o)
    \/ o \in SliceOps /\ b.t = "obj"
    \/ o \in StructOps /\ b.t = "arr"

\* The call returned the decode error under the parse-failure message, and
\* no result.
ParseFailure ==
    /\ out.kind = "return"
    /\ out.result = FailResult(op)
    /\ \E e \in {ErrSyntax, ErrType} : out.err = WithMessage(e, ErrParseResponse)

\* The call failed in the transport: no request could be made, no response
\* came, or the body could not be read to its end.
TransportFailed ==
    Done /\ ret.returned /\ (resp = NoResponse \/ ~copyErr.isNil)

\* A validation or transport failure does not carry the parse-failure message.
ParseFailureDistinct ==
    Done /\ (Rejected \/ TransportFailed) =>
        /\ ~out.err.isNil
        /\ out.err.msg[1] # ErrParseResponse

\* A 200 whose body, read to its end, is not of the shape of the response
\* of the decoding operation called
MalformedOK ==
    /\ Done /\ op \notin NoResultOps
    /\ resp.StatusCode = StatusOK /\ BodyReadToEnd
    /\ NotExpectedShape(op, resp.Body)

\* C14 as stated: every decoding operation turns such a 200 into a parse
\* failure with no result, which no validation or transport failure equals.
C14_MalformedBodyParseFailure ==
    /\ MalformedOK => ParseFailure
    /\ ParseFailureDistinct

\* C14 amended: as stated, except that PutChangeUserMyAlarm does not decode
\* a zero-length body.
C14_MalformedBodyParseFailure_amended ==
    /\ MalformedOK /\ ~(op = "PutChangeUserMyAlarm" /\ resp.Body = EmptyBytes)
          => ParseFailure
    /\ ParseFailureDistinct

C14_Witness ==
    /\ MalformedOK /\ op = "GetParts" /\ resp.Body = IllTypedBody(op)
    /\ out = Return(EmptySlice, WithMessage(ErrType, ErrParseResponse))

\* The errors doHTTP returns for a failure of the network: c.client.Do
\* failed, or io.Copy failed on the body of a 200 or of a 400
NetworkFailures ==
    {doHTTP_doFailed(e).err : e \in {ErrNet, ErrTimeout}}
    \cup {doHTTP_body(status, e, buf).err :
            status \in {StatusOK, StatusBadRequest},
            e \in {ErrTimeout, ErrBodyRead}, buf \in {EmptyBytes, Garbage}}

\* The call failed on a response of the provider: a 400 whose body was read,
\* or another status that is not 200.
ProviderFailed ==
    /\ Done /\ resp # NoResponse /\ copyErr.isNil
    /\ resp.StatusCode # StatusOK

\* C15: the description of a failure returned for a provider response (a 400
\* with any Message, or another non-200 status) is the description of no
\* failure returned for a network error.
C15_NetworkFailureDistinct ==
    ProviderFailed =>
        /\ ~out.err.isNil
        /\ Description(out.err) \notin
              {Description(e) : e \in NetworkFailures}

\* C17: for an input that passes validation generateRequest completes and
\* yields the request descriptor the facade goes on with, whatever the
\* non-empty Host holds.
C17_RequestAlwaysBuilt ==
    Done /\ validate(op, input) = Returned(NilErr) =>
        /\ ~generateRequest(op, input).panic
        /\ out.kind = "return"
        /\ req = generateRequest(op, input).req /\ req # NoRequest

\* C18: validate ends by returning acceptance or a validation error for
\* every input, phones of every length included, and leaves the input as it
\* was.
C18_ValidateTotal ==
    Done =>
        /\ ~validate(op, input).panic
        /\ validate(op, input).err.isNil
              \/ validate(op, input).err.msg[1] \in ValidationMessages
        /\ Rejected \/ validate(op, input) = Returned(NilErr)

\* The identifying parameters each operation has to pass in the query
\* string, with the text of the input's value.  A boolean is required with
\* either spelling of its value.
RequiredParams ==
    CASE op = LegacyGetSites -> {{<<"id", Itoa(input.IdNum)>>}}
      [] op \in {"GetSites", "GetCustomer"} -> {{<<"id", input.Id>>}}
      [] op \in {"Customers", "PostCheckPanic", "GetUsersMyAlarm", "GetParts",
                 "GetZones"} -> {{<<"siteId", input.SiteId>>}}
      [] op = "GetCheckPanic" -> {{<<"checkPanicId", input.CheckPanicId>>}}
      [] op = "PutChangeUserMyAlarm" ->
           {{<<"custId", input.CustId>>}, {<<"role", input.Role>>}}
      [] op = "PutChangeKTSUserMyAlarm" ->
           {{<<"custId", input.CustId>>},
            IF input.IsPanic THEN {<<"isPanic", "True">>, <<"isPanic", "true">>}
            ELSE {<<"isPanic", "False">>, <<"isPanic", "false">>}}
      [] op = "GetUserObjectMyAlarm" -> {}

\* The keys of the query string of the request built
QueryKeys == {kv[1] : kv \in QueryPairs}

\* C19: the query of the request built holds each identifying parameter of
\* the operation with the input's value, and holds userName, with the
\* input's UserName (escaped), exactly when UserName is not empty.
C19_QueryParameters ==
    RequestBuilt =>
        /\ \A alternatives \in RequiredParams : alternatives \cap QueryPairs # {}
        /\ "userName" \in QueryKeys <=> input.UserName # ""
        /\ input.UserName # "" =>
              <<"userName", QueryEscape(input.UserName)>> \in QueryPairs

C19_Witness ==
    /\ RequestBuilt /\ op = "PutChangeUserMyAlarm" /\ input.UserName = ""
    /\ input.Role = "unlink" /\ transportCalls = 1
    /\ req.URL.query = << <<"custId", "s1">>, <<"role", "unlink">> >>

\* C20: the request GetUserObjectMyAlarm builds has for body the JSON
\* serialization of the input, {"Phone": phone}, and no query parameter
\* other than userName; the request of every other operation has an empty
\* body.
C20_BodyOnlyForUserObjects ==
    RequestBuilt =>
        IF op = "GetUserObjectMyAlarm"
           THEN /\ req.body = JObj(<< <<"Phone", JStr(input.Phone)>> >>)
                /\ QueryKeys \subseteq {"userName"}
                /\ httpReq # NoHTTPRequest => httpReq.Body = req.body
           ELSE req.body = EmptyBytes

C20_Witness ==
    /\ RequestBuilt /\ op = "GetUserObjectMyAlarm" /\ transportCalls = 1
    /\ input.Phone = PhoneGood /\ input.UserName = "u 1"
    /\ req.body = JObj(<< <<"Phone", JStr(PhoneGood)>> >>)
    /\ req.URL.query = << <<"userName", "u+1">> >>

\* What the invocation of frame f returns when it runs alone, with the same
\* input and the same answer of the network
AloneOutcome(f) ==
    IF ~facadeStart(f.op, f.input, Background).sent
       THEN facadeStart(f.op, f.input, Background).out
    ELSE IF f.resp = NoResponse
       THEN facadeAfterHTTP(f.op, doHTTP_doFailed(ErrNet))
    ELSE facadeAfterHTTP(f.op, doHTTP_response(f.resp.StatusCode, f.resp.Body))

\* Run alone, the invocation of frame f panics.
AloneAborts(f) ==
    f.pc # "idle" /\ facadeStart(f.op, f.input, Background).out = Panic

\* No invocation changes the Client or the request descriptor of another,
\* and an invocation that has ended ended as it would alone.
Undisturbed ==
    /\ client = NewClient
    /\ \A k \in Callers :
          /\ calls[k].pc \in {"doHTTP", "awaitHeaders"} =>
                /\ calls[k].req =
                      generateRequest(calls[k].op, calls[k].input).req
                /\ calls[k].pc = "awaitHeaders" =>
                      calls[k].httpReq.URL = calls[k].req.URL
          /\ calls[k].pc = "done" => calls[k].out = AloneOutcome(calls[k])

\* C16: with several invocations running on one Client, under every
\* interleaving, no invocation changes the Client or another's request, an
\* invocation that ends ends as it would alone, and an invocation that
\* alone would return is never ended by what another invocation does.
C16_ConcurrentIndependent ==
    /\ Undisturbed
    /\ crashed => \A k \in Callers :
                     calls[k].pc \in {"idle", "done"} \/ AloneAborts(calls[k])

\* The fixed endpoint path of each operation
EndpointOf(o) ==
    CASE o \in {LegacyGetSites, "GetSites"} -> endpointGetSites
      [] o \in {"Customers", "GetCustomer"} -> endpointGetCustomers
      [] o \in {"PostCheckPanic", "GetCheckPanic"} -> endpointCheckPanic
      [] o \in {"GetUsersMyAlarm", "PutChangeUserMyAlarm",
                "PutChangeKTSUserMyAlarm"} -> endpointMyAlarm
      [] o = "GetUserObjectMyAlarm" -> endpointGetUserObjectMyAlarm
      [] o = "GetParts" -> endpointGetParts
      [] o = "GetZones" -> endpointGetZones

\* The headers of the HTTP request handed to the transport
Headers == {httpReq.Header[j] : j \in DOMAIN httpReq.Header}

\* C21: a request descriptor handed to doHTTP carries the caller's ApiKey,
\* which is not empty, and the URL made of the caller's Host, which is not
\* empty, and the endpoint of the operation; an HTTP request handed to the
\* transport carries that URL and that key in its apiKey header.
C21_KeyAndHostCarried ==
    /\ req # NoRequest =>
          /\ input.ApiKey # "" /\ req.apiKey = input.ApiKey
          /\ input.Host # <<>>
          /\ req.URL.base = input.Host \o EndpointOf(op)
    /\ transportCalls > 0 =>
          /\ req # NoRequest
          /\ httpReq.URL = req.URL
          /\ <<"apiKey", input.ApiKey>> \in Headers
          /\ \A h \in Headers : h[1] = "apiKey" => h[2] = input.ApiKey

C21_Witness ==
    /\ Done /\ transportCalls = 1 /\ op = "GetParts"
    /\ input.ApiKey = "k1" /\ input.Host = HostHttp
    /\ httpReq.URL.base = HostHttp \o endpointGetParts
    /\ httpReq.Header[1] = <<"apiKey", "k1">>

\* C22: PutChangeKTSUserMyAlarm, answered with HTTP 200 and a body that is
\* not empty and is read to its end, decodes the body: a body that is not
\* JSON makes the call return the parse failure.
C22_KTSDecodesBody ==
    Done /\ op = "PutChangeKTSUserMyAlarm" /\ resp.StatusCode = StatusOK
         /\ BodyReadToEnd /\ resp.Body = Garbage =>
        /\ ~out.err.isNil
        /\ out.err.msg[1] = ErrParseResponse

\* The operations that decode every 200 body, the empty one included
AlwaysDecodingOps == (Ops \ NoResultOps) \ {"PutChangeUserMyAlarm"}

\* C23: on HTTP 200 with the body read to its end, PutChangeUserMyAlarm
\* returns the zero response and no error for a body of length zero, and
\* decodes any other body (a body that is not JSON is a parse failure, a
\* marshalled response is returned as it was); every other decoding
\* operation returns the parse failure for a body of length zero.
C23_EmptyBodySkippedByChangeUserOnly ==
    Done /\ resp.StatusCode = StatusOK /\ BodyReadToEnd =>
        /\ op = "PutChangeUserMyAlarm" /\ resp.Body = EmptyBytes =>
              out = Return(ZeroStruct(PutChangeUserMyAlarmResponse), NilErr)
        /\ op = "PutChangeUserMyAlarm" /\ resp.Body = Garbage =>
              /\ ParseFailure
              /\ out.err = WithMessage(ErrSyntax, ErrParseResponse)
        /\ op = "PutChangeUserMyAlarm" =>
              \A r \in SampleResults(op) :
                  resp.Body = MarshalResult(op, r) => out = Return(r, NilErr)
        /\ op \in AlwaysDecodingOps /\ resp.Body = EmptyBytes =>
              /\ ParseFailure
              /\ out.err = WithMessage(ErrSyntax, ErrParseResponse)

C23_Witness ==
    /\ Done /\ op = "PutChangeUserMyAlarm" /\ resp.StatusCode = StatusOK
    /\ BodyReadToEnd /\ resp.Body = EmptyBytes /\ transportCalls = 1
    /\ out.kind = "return" /\ out.err.isNil
    /\ out.result = ZeroStruct(PutChangeUserMyAlarmResponse)

\* The input of the call with the other value of StopOnEvent
StopOnEventFlipped == [input EXCEPT !.StopOnEvent = ~input.StopOnEvent]

OtherApiKey == "k2"

\* The request the operation builds for the same input under the other key
UnderOtherKey == generateRequest(op, [input EXCEPT !.ApiKey = OtherApiKey]).req

\* The names of the members of the JSON body of the request built
BodyMembers ==
    IF req.body.t = "obj"
       THEN {req.body.members[j][1] : j \in DOMAIN req.body.members}
       ELSE {}

\* C25: the URL and the body of the request built for a valid input do not
\* depend on the caller's ApiKey (the same input under another key gives
\* the same URL and the same body) and no query parameter has the key as
\* its value; the body of GetUserObjectMyAlarm is the object with the one
\* member Phone, the body of every other operation is empty; the HTTP
\* request sent has that URL and that body, and the key is the value of
\* its apiKey header and of no other header.
C25_KeyOnlyInHeader ==
    /\ req # NoRequest =>
          /\ input.ApiKey # OtherApiKey
          /\ \A kv \in QueryPairs : kv[2] # input.ApiKey
          /\ IF op = "GetUserObjectMyAlarm"
                THEN /\ BodyMembers = {"Phone"}
                     /\ req.body = JObj(<< <<"Phone", JStr(input.Phone)>> >>)
                ELSE req.body = EmptyBytes
          /\ UnderOtherKey.URL = req.URL
          /\ UnderOtherKey.body = req.body
          /\ UnderOtherKey.apiKey = OtherApiKey
    /\ transportCalls > 0 =>
          /\ httpReq.URL = req.URL /\ httpReq.Body = req.body
          /\ \A h \in Headers : h[2] = input.ApiKey <=> h[1] = "apiKey"

C25_Witness ==
    /\ op = "GetUserObjectMyAlarm" /\ transportCalls = 1
    /\ input.ApiKey = "k1" /\ input.UserName = "u 1"
    /\ httpReq.Body = JObj(<< <<"Phone", JStr(input.Phone)>> >>)
    /\ QueryPairs = {<<"userName", QueryEscape("u 1")>>}
    /\ <<"apiKey", "k1">> \in Headers

====
